---- MODULE Spec2Model ----
(***************************************************************************)
(* A model of analyze.py: the monthly batch driver (main), the raster      *)
(* loader (open_file), the derived indices (wind_chill, rh, heat_index)    *)
(* and the comfort classifier and category masks of draw.                  *)
(*                                                                         *)
(* Numbers.  The program computes in IEEE floating point on pandas Series. *)
(* The model computes in fixed point: an integer n stands for the real     *)
(* number n / Scale.  Scale = 9000 makes every literal of the program      *)
(* (42.379, 0.13, 237.3, ...) and every Fahrenheit degree reached from a   *)
(* Celsius input of k/9 degrees an exact integer.  Products and quotients  *)
(* round towards minus infinity to 1/9000.  The missing value (NaN) is the *)
(* integer NaN below, outside the range of every computed number; every    *)
(* arithmetic operator propagates it and every comparison with it is       *)
(* false, as in numpy/pandas.                                              *)
(***************************************************************************)
EXTENDS Integers, Sequences, FiniteSets, TLC

VARIABLES month, pc, missingFiles, raw, table, written, drawn, call

vars == <<month, pc, missingFiles, raw, table, written, drawn, call>>

(***************************************************************************)
(* Fixed-point arithmetic with missing values                              *)
(***************************************************************************)
Scale == 9 * 1000

NaN == -(2000 * 1000 * 1000)

isnull(x) == x = NaN

\* the real number k (an integer literal of the program) in fixed point
R(k) == k * Scale

add(a, b) == IF a = NaN \/ b = NaN THEN NaN ELSE a + b

sub(a, b) == IF a = NaN \/ b = NaN THEN NaN ELSE a - b

\* a * k and a / k for an integer literal k
mulk(a, k) == IF a = NaN THEN NaN ELSE a * k

divk(a, k) == IF a = NaN THEN NaN ELSE a \div k

\* a * b of two fixed-point numbers: floor(a*b/Scale), without leaving 32 bits
mul(a, b) ==
    IF a = NaN \/ b = NaN THEN NaN
    ELSE LET ah == a \div Scale
             al == a % Scale
             bh == b \div Scale
             bl == b % Scale
         IN  ah * bh * Scale + ah * bl + al * bh + ((al * bl) \div Scale)

\* a / b of two fixed-point numbers: floor(a*Scale/b), b > 0, by long
\* division in the steps 30 * 30 * 10 = Scale, without leaving 32 bits
div(a, b) ==
    IF a = NaN \/ b = NaN THEN NaN
    ELSE LET q  == a \div b
             r  == a % b
             q1 == (r * 30) \div b
             r1 == (r * 30) % b
             q2 == (r1 * 30) \div b
             r2 == (r1 * 30) % b
             q3 == (r2 * 10) \div b
         IN  q * Scale + q1 * 300 + q2 * 10 + q3

\* c * x for a decimal literal c of the program, given as the integer
\* c8 = c * 10^8 (so 2.04901523 is 204901523): floor(x * c8 / 10^8)
coef(c8, x) ==
    IF x = NaN THEN NaN
    ELSE LET h  == 10000
             xh == x \div h
             xl == x % h
             ch == c8 \div h
             cl == c8 % h
         IN  xh * ch + ((xh * cl + xl * ch + ((xl * cl) \div h)) \div h)

\* the decimal literal c of the program, given as c8 = c * 10^8, in fixed point
D(c8) == coef(c8, Scale)

RECURSIVE SqrtBisect(_, _, _)
SqrtBisect(n, lo, hi) ==
    IF lo = hi THEN lo
    ELSE LET mid == (lo + hi + 1) \div 2
         IN  IF mid * mid <= n THEN SqrtBisect(n, mid, hi)
             ELSE SqrtBisect(n, lo, mid - 1)

\* numpy.sqrt of a fixed-point number in [0, 1]; NaN outside (and for NaN)
sqrt(x) ==
    IF x = NaN \/ x < 0 \/ x > Scale THEN NaN
    ELSE SqrtBisect(x * Scale, 0, Scale)

abs(x) == IF x = NaN THEN NaN ELSE IF x < 0 THEN -x ELSE x

\* pandas Series.lt/.gt/.ge/.le/.between: False where an operand is missing
lt(a, b) == a # NaN /\ b # NaN /\ a < b

gt(a, b) == a # NaN /\ b # NaN /\ a > b

ge(a, b) == a # NaN /\ b # NaN /\ a >= b

le(a, b) == a # NaN /\ b # NaN /\ a <= b

between(x, lo, hi) == ge(x, lo) /\ le(x, hi)

\* pandas Series.where(cond, other): self where cond holds, other elsewhere
where(self, cond, other) == IF cond THEN self ELSE other

(***************************************************************************)
(* Unit conversion                                                         *)
(***************************************************************************)
c_to_f(temp) == add(divk(mulk(temp, 9), 5), R(32))

(***************************************************************************)
(* heat_index(temp, rh), one grid cell.  u is the content of the output    *)
(* buffer of numpy.sqrt(..., where=adj1_where) at a cell where the mask is *)
(* false: numpy leaves it uninitialised, so it is any value.               *)
(***************************************************************************)
hi1_regression(temp, rh) ==
    LET tr   == mul(temp, rh)
        tt   == mul(temp, temp)
        rr   == mul(rh, rh)
        ttr  == mul(tt, rh)
        trr  == mul(tr, rh)
        ttrr == mul(ttr, rh)
        c0   == R(42) + D(37900000)
        p1   == add(coef(204901523, temp), coef(1014333127, rh))
        p2   == add(coef(122874, ttr), coef(85282, trr))
        n1   == add(coef(22475541, tr), coef(683783, tt))
        n2   == add(coef(5481717, rr), coef(199, ttrr))
    IN  sub(add(add(-c0, p1), p2), add(n1, n2))

\* (variants of the definitions that follow them, used to test that the
\* properties below depend on the code: _le, _gt, _noFloor, _short)
adj1_where_le(temp, rh) == le(rh, D(13000000)) /\ between(temp, R(80), R(112))

adj1_where(temp, rh) == lt(rh, D(13000000)) /\ between(temp, R(80), R(112))

adj2_where(temp, rh) == gt(rh, D(85000000)) /\ between(temp, R(80), R(87))

sqrt_where(x, mask, u) == IF mask THEN sqrt(x) ELSE u

adj1(temp, rh, hi1, u) ==
    sub(hi1, mul(divk(sub(R(13), rh), 4),
                 sqrt_where(divk(sub(R(17), abs(sub(temp, R(95)))), 17),
                            adj1_where(temp, rh), u)))

adj2(temp, rh, hi1) ==
    add(hi1, mul(divk(sub(rh, R(85)), 10), divk(sub(R(87), temp), 5)))

hi1_adjusted(temp, rh, u) ==
    LET hi1 == hi1_regression(temp, rh)
        h1  == where(adj1(temp, rh, hi1, u), adj1_where(temp, rh), hi1)
    IN  where(adj2(temp, rh, hi1), adj2_where(temp, rh), h1)

hi2_simple(temp, rh) ==
    divk(add(add(add(temp, R(61)), coef(120000000, sub(temp, R(68)))),
             coef(9400000, rh)), 2)

hi3_select(hi1, mhi, hi2) == where(hi1, ge(mhi, R(80)), hi2)

hi_select_gt(hi3, temp) == where(hi3, gt(temp, R(70)), temp)

hi_select_noFloor(hi3, temp) == hi3

hi_select(hi3, temp) == where(hi3, ge(temp, R(70)), temp)

mhi_of(hi1, temp) == divk(add(hi1, temp), 2)

hi3_of(temp, rh, u) ==
    LET hi1 == hi1_adjusted(temp, rh, u)
    IN  hi3_select(hi1, mhi_of(hi1, temp), hi2_simple(temp, rh))

heat_index(temp_c, rh, u) ==
    LET temp == c_to_f(temp_c)
    IN  hi_select(hi3_of(temp, rh, u), temp)

\* the locals of one call of heat_index, by their names in the source
\* (base is hi1 as first assigned, hi1 is hi1 after the two corrections)
heat_index_locals(temp_c, rh, u) ==
    LET temp == c_to_f(temp_c)
        hi1  == hi1_adjusted(temp, rh, u)
    IN  [temp |-> temp,
         adj1_where |-> adj1_where(temp, rh),
         adj2_where |-> adj2_where(temp, rh),
         base |-> hi1_regression(temp, rh),
         hi1 |-> hi1,
         mhi |-> mhi_of(hi1, temp),
         hi2 |-> hi2_simple(temp, rh),
         hi3 |-> hi3_of(temp, rh, u),
         hi |-> heat_index(temp_c, rh, u)]

(***************************************************************************)
(* numpy power.  10 ** x and wind ** 0.16 are tabulated, to 1/Scale, at    *)
(* the arguments the readings of the model produce; applying them to any   *)
(* other argument is an error of the model, never a silent default.        *)
(***************************************************************************)
Pow10Table ==
    (4013 :> 25126) @@ (6433 :> 46668) @@ (7575 :> 62504) @@ (8676 :> 82840)

Pow016Table == (60397 :> 12205) @@ (201324 :> 14797)

pow10(x) == IF x = NaN THEN NaN ELSE Pow10Table[x]

pow016(w) == IF w = NaN THEN NaN ELSE Pow016Table[w]

(***************************************************************************)
(* wind_chill(temp, wind) and rh(temp, vapr_actual), one grid cell         *)
(***************************************************************************)
wind_chill(temp_c, wind_mps) ==
    LET temp == c_to_f(temp_c)
        wind == coef(223694000, wind_mps)
        we   == pow016(wind)
    IN  add(sub(add(R(35) + D(74000000), coef(62150000, temp)),
                mul(R(35) + D(75000000), we)),
            mul(coef(42750000, temp), we))

rh(temp, vapr_actual) ==
    LET x        == div(coef(750000000, temp), add(R(237) + D(30000000), temp))
        vapr_sat == coef(611000000, pow10(x))
    IN  div(mulk(vapr_actual, 10), vapr_sat)

(***************************************************************************)
(* open_file(month, attribute): the floor check on a raw raster table      *)
(***************************************************************************)
Attributes == {"tmin", "tmax", "vapr", "wind"}

minval(attribute) ==
    IF attribute \in {"tmin", "tmax", "tavg"} THEN R(-273) ELSE R(0)

keep_gt(x, floor) == x > floor

\* df[attribute].where(df[attribute] > minval), one cell
floor_where(x, attribute) == where(x, keep_gt(x, minval(attribute)), NaN)

\* the Series open_file returns for the raw table of the file: same index
open_file(rawTable, attribute) ==
    [c \in DOMAIN rawTable |-> floor_where(rawTable[c], attribute)]

(***************************************************************************)
(* draw: the comfort classifier and the four category masks                *)
(***************************************************************************)
\* a boolean Series cell after  s[x.isnull()] = numpy.nan
tri(b, null) == IF null THEN "NaN" ELSE IF b THEN "True" ELSE "False"

ok_hi_le(hi) == tri(le(hi, R(80)), isnull(hi))

ok_hi(hi) == tri(lt(hi, R(80)), isnull(hi))

ok_wc(wc) == tri(gt(wc, R(45)), isnull(wc))

\* elementwise  == False,  != False,  == True  on such a cell
eqFalse(x) == x = "False"

neFalse(x) == x # "False"

eqTrue(x) == x = "True"

Black(hi, wc) == eqFalse(hi) /\ eqFalse(wc)

Blue(hi, wc) == neFalse(hi) /\ eqFalse(wc)

Red(hi, wc) == eqFalse(hi) /\ neFalse(wc)

Green(hi, wc) == eqTrue(hi) /\ eqTrue(wc)

\* the colours a cell with flags (hi, wc) is plotted in
colours(hi, wc) ==
    {k \in {"Black", "Blue", "Red", "Green"} :
        \/ k = "Black" /\ Black(hi, wc)
        \/ k = "Blue" /\ Blue(hi, wc)
        \/ k = "Red" /\ Red(hi, wc)
        \/ k = "Green" /\ Green(hi, wc)}

\* the Series of draw(month) for the raw rasters g (cell -> reading)
draw_series(g, u) ==
    LET tmin == open_file([c \in DOMAIN g |-> g[c].tmin], "tmin")
        tmax == open_file([c \in DOMAIN g |-> g[c].tmax], "tmax")
        vapr == open_file([c \in DOMAIN g |-> g[c].vapr], "vapr")
        wind == open_file([c \in DOMAIN g |-> g[c].wind], "wind")
        wc   == [c \in DOMAIN g |-> wind_chill(tmin[c], wind[c])]
        rhum == [c \in DOMAIN g |-> rh(tmax[c], vapr[c])]
        hi   == [c \in DOMAIN g |-> heat_index(tmax[c], rhum[c], u)]
        gsdf == [c \in DOMAIN g |-> [hi |-> ok_hi(hi[c]), wc |-> ok_wc(wc[c])]]
    IN  [c \in DOMAIN g |->
            [tmin |-> tmin[c], tmax |-> tmax[c], vapr |-> vapr[c],
             wind |-> wind[c], wc |-> wc[c], rh |-> rhum[c], hi |-> hi[c],
             ok_hi |-> gsdf[c].hi, ok_wc |-> gsdf[c].wc,
             colours |-> colours(gsdf[c].hi, gsdf[c].wc)]]

(***************************************************************************)
(* The batch driver main and its environment                               *)
(***************************************************************************)
NCells == 2

Cells == 1..NCells

MonthRange_short == 1..11

\* range(1, 13)
MonthRange == 1..12

\* a raw raster reading of one cell, in the units of the files
Reading(tmin, tmax, vapr, wind) ==
    [tmin |-> R(tmin), tmax |-> R(tmax), vapr |-> R(vapr), wind |-> R(wind)]

Readings ==
    { Reading(-5, 30, 2, 3),       \* every reading valid
      Reading(-300, -300, -1, -1), \* every reading below its floor
      Reading(-273, -273, 0, 0),   \* every reading equal to its floor
      Reading(10, 15, -1, 3),      \* vapr invalid, tmax below 70 F
      Reading(20, 35, -1, 3),      \* vapr invalid, tmax above 70 F
      Reading(-5, 35, -1, 3),      \* vapr invalid, cold night
      Reading(10, 35, 2, -1),      \* wind invalid, hot day
      Reading(10, 25, 1, 0),       \* calm: wind equal to its floor
      Reading(-5, 35, 2, 10),      \* hot day, cold night
      Reading(10, -300, 1, 3),     \* tmax invalid
      Reading(20, 25, 1, 3) }      \* mild day, mild night

\* what numpy.sqrt(..., where=mask) may leave where the mask is false
Garbage == {NaN, R(0), R(1)}

\* the input files: the four rasters of each month and the one shapefile
Shapefile == <<0, "shp">>

Files == (MonthRange \X Attributes) \cup {Shapefile}

\* the files draw(m) reads: open_file four times, then geopandas.read_file
FilesOf(m) == ({m} \X Attributes) \cup {Shapefile}

NoData == << >>

NoCall == [op |-> "none"]

\* Every Series of draw is elementwise, so the row of a cell is computed once
\* for each reading (on a one-cell grid) and looked up for the cells of g.
DrawRows == [r \in Readings, u \in Garbage |-> draw_series(<<r>>, u)[1]]

draw(g, u) == [c \in DOMAIN g |-> DrawRows[g[c], u]]

Init ==
    /\ month = 1
    /\ pc = "loop"
    /\ missingFiles \in {{}} \cup {{f} : f \in Files}
    /\ raw = NoData
    /\ table = NoData
    /\ written = << >>
    /\ drawn = << >>
    /\ call = NoCall

\* fig = draw(month), every input file of the month readable
Draw ==
    /\ pc = "loop"
    /\ month \in MonthRange
    /\ FilesOf(month) \cap missingFiles = {}
    /\ \E g \in [Cells -> Readings], u \in Garbage :
          /\ raw' = g
          /\ table' = draw(g, u)
    /\ drawn' = Append(drawn, month)
    /\ pc' = "drawn"
    /\ UNCHANGED <<month, missingFiles, written, call>>

\* draw(month) raises on an unreadable file; main catches nothing
DrawRaises ==
    /\ pc = "loop"
    /\ month \in MonthRange
    /\ FilesOf(month) \cap missingFiles # {}
    /\ pc' = "crashed"
    /\ UNCHANGED <<month, missingFiles, raw, table, written, drawn, call>>

\* savefig("{:02d}.png".format(month)), then the next iteration of the loop
SaveFig ==
    /\ pc = "drawn"
    /\ written' = Append(written, month)
    /\ raw' = NoData
    /\ table' = NoData
    /\ month' = month + 1
    /\ pc' = "loop"
    /\ UNCHANGED <<missingFiles, drawn, call>>

\* the range is exhausted: main returns
LoopExit ==
    /\ pc = "loop"
    /\ month \notin MonthRange
    /\ pc' = "done"
    /\ UNCHANGED <<month, missingFiles, raw, table, written, drawn, call>>

Next == Draw \/ DrawRaises \/ SaveFig \/ LoopExit

Spec == Init /\ [][Next]_vars

(***************************************************************************)
(* The pure functions on their own: one call of heat_index, or of the      *)
(* classifier of draw, on inputs drawn from sets that hold every threshold *)
(* of the code and a value on each side of it.                             *)
(***************************************************************************)
\* Celsius inputs whose Fahrenheit value is the integer f
FromF(f) == (f - 32) * 5 * 1000

FnTemps ==
    {NaN} \cup {FromF(f) : f \in {50, 69, 70, 71, 79, 80, 81, 87, 88, 95, 112, 113}}

FnRhs ==
    {NaN} \cup {D(c) : c \in {0, 5000000, 12000000, 13000000, 14000000, 50000000,
                              85000000, 86000000, 95000000, 110000000}}

FnHis == {NaN, R(60), R(80) - 1, R(80), R(80) + 1, R(100)}

FnWcs == {NaN, R(20), R(45) - 1, R(45), R(45) + 1, R(60)}

FnCalls ==
    [op : {"heat_index"}, temp : FnTemps, rh : FnRhs, u : Garbage,
     phase : {"pending"}, out : {NoData}]
    \cup [op : {"classify"}, hi : FnHis, wc : FnWcs, phase : {"pending"}, out : {NoData}]

FnInit ==
    /\ month = 0
    /\ pc = "fn"
    /\ missingFiles = {}
    /\ raw = NoData
    /\ table = NoData
    /\ written = << >>
    /\ drawn = << >>
    /\ call \in FnCalls

CallHeatIndex ==
    /\ call.op = "heat_index"
    /\ call.phase = "pending"
    /\ call' = [call EXCEPT !.phase = "returned",
                            !.out = heat_index_locals(call.temp, call.rh, call.u)]
    /\ UNCHANGED <<month, pc, missingFiles, raw, table, written, drawn>>

CallClassify ==
    /\ call.op = "classify"
    /\ call.phase = "pending"
    /\ call' = [call EXCEPT !.phase = "returned", !.out =
                    [ok_hi |-> ok_hi(call.hi), ok_wc |-> ok_wc(call.wc),
                     colours |-> colours(ok_hi(call.hi), ok_wc(call.wc))]]
    /\ UNCHANGED <<month, pc, missingFiles, raw, table, written, drawn>>

FnNext == CallHeatIndex \/ CallClassify

FnSpec == FnInit /\ [][FnNext]_vars

(***************************************************************************)
(* Properties                                                              *)
(***************************************************************************)
Returned(op) == call.op = op /\ call.phase = "returned"

\* C1: at every cell, a missing input of wind_chill, rh or heat_index gives
\* a missing output; heat_index is missing whenever rh is missing, whatever
\* the temperature, and heat_ok is then missing.
C1_MissingPropagates ==
    pc = "drawn" =>
        \A c \in Cells :
            LET row == table[c]
            IN  /\ (isnull(row.tmin) \/ isnull(row.wind)) => isnull(row.wc)
                /\ (isnull(row.tmax) \/ isnull(row.vapr)) => isnull(row.rh)
                /\ (isnull(row.tmax) \/ isnull(row.rh)) =>
                        (isnull(row.hi) /\ row.ok_hi = "NaN")

\* C2: a cell whose heat_ok or cold_ok flag is missing is in none of the
\* four plotted categories.
C2_MissingFlagNoCategory ==
    pc = "drawn" =>
        \A c \in Cells :
            (table[c].ok_hi = "NaN" \/ table[c].ok_wc = "NaN")
                => table[c].colours = {}

\* C3: open_file makes a reading missing exactly when it is strictly below
\* the floor of its attribute (-273 for tmin/tmax, 0 for vapr/wind), keeps a
\* reading equal to or above the floor unchanged, and keeps every coordinate.
C3_FloorKept ==
    pc = "drawn" =>
        /\ DOMAIN table = DOMAIN raw
        /\ \A c \in Cells :
              /\ table[c].tmin = (IF raw[c].tmin < R(-273) THEN NaN ELSE raw[c].tmin)
              /\ table[c].tmax = (IF raw[c].tmax < R(-273) THEN NaN ELSE raw[c].tmax)
              /\ table[c].vapr = (IF raw[c].vapr < R(0) THEN NaN ELSE raw[c].vapr)
              /\ table[c].wind = (IF raw[c].wind < R(0) THEN NaN ELSE raw[c].wind)

\* C4 as stated: at temp_f exactly 70, heat_index returns the raw temp_f,
\* for every relative humidity.
C4_At70ReturnsTemp ==
    (Returned("heat_index") /\ call.out.temp = R(70))
        => call.out.hi = call.out.temp

\* C4 as amended: at temp_f exactly 70 heat_index returns hi3, that is hi2
\* unless (hi1 + temp_f)/2 >= 80 and then hi1, and not the raw temp_f; the
\* raw temp_f is returned for temp_f strictly below 70.
C4_At70ReturnsHi3 ==
    Returned("heat_index") =>
        LET o == call.out
        IN  /\ o.temp = R(70) =>
                  /\ o.hi = (IF o.mhi # NaN /\ o.mhi >= R(80) THEN o.hi1 ELSE o.hi2)
                  /\ o.hi # o.temp
            /\ (o.temp # NaN /\ o.temp < R(70)) => o.hi = o.temp

C4_Witness ==
    /\ Returned("heat_index")
    /\ call.out.temp = R(70)
    /\ call.rh = D(50000000)
    /\ call.out.hi = call.out.hi2

\* the humidity term 0.5 * (temp_f + 61 + (temp_f - 68)*1.2 + h*0.094)
SimpleIndex(t, h) ==
    (t + R(61) + coef(120000000, t - R(68)) + coef(9400000, h)) \div 2

\* sqrt((17 - |temp_f - 95|)/17)
Root(t) == sqrt((R(17) - abs(t - R(95))) \div 17)

\* C5: heat_index evaluates hi2 and the two correction magnitudes with the
\* relative humidity in per cent, 100 * rh_fraction, the scale of the 13% and
\* 85% tests.
C5_PercentScale ==
    (Returned("heat_index") /\ call.rh # NaN /\ call.out.temp # NaN) =>
        LET o   == call.out
            pct == 100 * call.rh
        IN  /\ o.adj1_where = (pct < R(13) /\ o.temp >= R(80) /\ o.temp <= R(112))
            /\ o.adj2_where = (pct > R(85) /\ o.temp >= R(80) /\ o.temp <= R(87))
            /\ o.hi2 = SimpleIndex(o.temp, pct)
            /\ o.adj1_where =>
                  o.hi1 = o.base - mul((R(13) - pct) \div 4, Root(o.temp))
            /\ o.adj2_where =>
                  o.hi1 = o.base + mul((pct - R(85)) \div 10, (R(87) - o.temp) \div 5)

\* C6: the low-humidity correction is applied exactly when rh < 13% and
\* 80 <= temp_f <= 112, the high-humidity correction exactly when rh > 85%
\* and 80 <= temp_f <= 87 (strict on rh, inclusive on temp_f), never both,
\* and hi1 is left as the regression value when neither is applied.
C6_CorrectionsWhen ==
    Returned("heat_index") =>
        LET o    == call.out
            t    == o.temp
            ok   == call.rh # NaN /\ t # NaN
            low  == ok /\ call.rh < D(13000000) /\ R(80) <= t /\ t <= R(112)
            high == ok /\ call.rh > D(85000000) /\ R(80) <= t /\ t <= R(87)
        IN  /\ o.adj1_where = low
            /\ o.adj2_where = high
            /\ ~(o.adj1_where /\ o.adj2_where)
            /\ o.hi1 = (IF high THEN adj2(t, call.rh, o.base)
                        ELSE IF low THEN adj1(t, call.rh, o.base, call.u)
                        ELSE o.base)

C6_Witness ==
    /\ Returned("heat_index")
    /\ call.out.temp = R(112)
    /\ call.rh = D(12000000)
    /\ call.out.adj1_where
    /\ call.out.hi1 = call.out.base

\* C7: heat_ok is missing if heat_index is missing, otherwise true iff
\* heat_index < 80; cold_ok is missing if wind_chill is missing, otherwise
\* true iff wind_chill > 45; each flag depends on its own index only.
C7_Flags ==
    Returned("classify") =>
        /\ call.out.ok_hi = (IF call.hi = NaN THEN "NaN"
                             ELSE IF call.hi < R(80) THEN "True" ELSE "False")
        /\ call.out.ok_wc = (IF call.wc = NaN THEN "NaN"
                             ELSE IF call.wc > R(45) THEN "True" ELSE "False")

C7_Witness ==
    /\ Returned("classify")
    /\ call.hi = R(80)
    /\ call.wc = R(45)
    /\ call.out.ok_hi = "False"
    /\ call.out.ok_wc = "False"

Images == {written[i] : i \in 1..Len(written)}

\* C8: once main has ended, on a fatal input error of month m or otherwise,
\* the image of every month whose input files are all valid has been written.
C8_OtherMonthsWritten ==
    pc \in {"crashed", "done"} =>
        \A m \in 1..12 : (FilesOf(m) \cap missingFiles = {}) => m \in Images

Ascending(seq) == \A i \in 1..Len(seq) : seq[i] = i

\* C9: with all inputs valid, main draws months 1, 2, ..., 12 in ascending
\* order, each once; the image of a month is written after its draw and
\* before the next draw; main can always take its next step and has written
\* exactly 12 images when it ends.
C9_MonthsInOrder ==
    missingFiles = {} =>
        /\ Ascending(drawn) /\ Ascending(written)
        /\ pc \in {"loop", "drawn", "done"}
        /\ pc = "loop" => (Len(drawn) = month - 1 /\ Len(written) = month - 1)
        /\ pc = "drawn" => (Len(drawn) = month /\ Len(written) = month - 1)
        /\ pc = "done" => (Len(drawn) = 12 /\ Len(written) = 12)
        /\ pc # "done" => ENABLED Next

C9_Witness ==
    /\ missingFiles = {}
    /\ pc = "done"
    /\ written = <<1, 2, 3, 4, 5, 6, 7, 8, 9, 10, 11, 12>>

\* C10: for non-missing inputs the result is raw temp_f if temp_f < 70;
\* otherwise hi2 = 0.5*(temp_f + 61 + (temp_f-68)*1.2 + rh*0.094) if
\* (hi1 + temp_f)/2 < 80, hi1 being the corrected regression value;
\* otherwise the corrected hi1.
C10_SelectionOrder ==
    (Returned("heat_index") /\ call.rh # NaN /\ call.out.temp # NaN) =>
        LET o == call.out
            t == o.temp
        IN  o.hi = (IF t < R(70) THEN t
                    ELSE IF (o.hi1 + t) \div 2 < R(80) THEN SimpleIndex(t, call.rh)
                    ELSE o.hi1)

C10_Witness ==
    /\ Returned("heat_index")
    /\ call.rh = D(50000000)
    /\ call.out.temp = R(69)
    /\ call.out.hi = R(69)
    /\ call.out.hi3 # R(69)

====
